---- MODULE Spec2Model ----
(***************************************************************************)
(* Control-flow model of the three Playwright verification scripts:        *)
(*   verification/verify_error_state.py              (script "error_state")*)
(*   code/e2e/verify_tooltip.py                      (script "tooltip")    *)
(*   jules-scratch/verification/verify_template_gallery.py ("gallery")     *)
(* One run of one script is one behaviour.  Every page operation is        *)
(* answered by the browser with one of the outcomes of Outcomes: it        *)
(* succeeds, it runs into its timeout (TimeoutError), it raises a          *)
(* Playwright Error with the page still usable ("fault"), or the page      *)
(* crashes ("crash", after which every page operation raises Error).       *)
(* Times are in seconds (the source gives milliseconds).                   *)
(* The variable result names the way the wait/fallback sequence of a       *)
(* script ends: Ready when its first wait succeeded (and, for the tooltip  *)
(* and the gallery, the checks that follow it), RecoveredThenReady when    *)
(* the wait after the fallback click succeeded, TimedOut when an operation *)
(* of the sequence ran into its timeout, Failed for any other exception.   *)
(***************************************************************************)
EXTENDS Integers, Sequences, FiniteSets, TLC

VARIABLES
    script,          \* which script is running
    pc,              \* the statement about to be executed
    exc,             \* the exception in flight ("None" when there is none)
    page,            \* "none" before new_page(), then "alive", "crashed" for good
    browser,         \* "none", "open" (launched), "closed" (browser.close() ran)
    primary,         \* outcome of the script's first wait for its target element
    fallback,        \* the except-branch of verify_error_state was entered
    target,          \* which button the fallback clicked: "none", "start", "title"
    recovery,        \* outcome of the fallback click
    recheck,         \* outcome of the wait after the fallback click
    rechecks,        \* number of waits executed after the fallback click
    clicks,          \* number of click() calls made on the page
    recoveryClicks,  \* number of click() calls made by the fallback
    timedOut,        \* the wait statement that ran into its timeout ("none" if none)
    result,          \* how the wait/fallback sequence ended ("None" while running)
    escaped,         \* an exception propagated out of the script
    exitCode,        \* -1 while running, then the interpreter's exit status
    printed,         \* verify_error_state printed "Error: ..."
    shot,            \* the screenshot was written
    waited           \* seconds spent inside waits for a condition

vars == <<script, pc, exc, page, browser, primary, fallback, target,
          recovery, recheck, rechecks, clicks, recoveryClicks, timedOut,
          result, escaped, exitCode, printed, shot, waited>>

Scripts == {"error_state", "tooltip", "gallery"}

\* timeouts, in seconds
FormTimeout == 5
DefaultTimeout == 30
TooltipTimeout == 10
H1Timeout == 60
HideLibraryTimeout == 30
TemplateTimeout == 15
DetailTimeout == 15

\* what the browser can answer to a page operation
Outcomes == IF page = "alive" THEN {"ok", "timeout", "fault", "crash"} ELSE {"crash"}

\* operations that return at once (is_visible, evaluate): no timeout
QuickOutcomes == Outcomes \ {"timeout"}

Faults == {"fault", "crash"}

\* the exception a failed operation raises
ExcOf(o) == IF o = "timeout" THEN "TimeoutError" ELSE "Error"

\* the outcome of the sequence when an operation of it failed with o
FailureOf(o) == IF o = "timeout" THEN "TimedOut" ELSE "Failed"

\* seconds a wait with timeout t takes when it ends with o
Elapsed(o, t) == IF o = "timeout" THEN {t} ELSE {0, t - 1}

Init ==
    /\ script \in Scripts
    /\ pc = "launch"
    /\ exc = "None"
    /\ page = "none"
    /\ browser = "none"
    /\ primary = "none"
    /\ fallback = FALSE
    /\ target = "none"
    /\ recovery = "none"
    /\ recheck = "none"
    /\ rechecks = 0
    /\ clicks = 0
    /\ recoveryClicks = 0
    /\ timedOut = "none"
    /\ result = "None"
    /\ escaped = FALSE
    /\ exitCode = -1
    /\ printed = FALSE
    /\ shot = FALSE
    /\ waited = 0

probeVars == <<primary, fallback, target, recovery, recheck, rechecks,
               recoveryClicks, timedOut, result, waited>>

----------------------------------------------------------------------------
(* verify_error_state.py *)

\* line 6: browser = p.chromium.launch(headless=True)
E_Launch ==
    /\ script = "error_state" /\ pc = "launch"
    /\ browser' = "open"
    /\ pc' = "new_page"
    /\ UNCHANGED <<script, exc, page, probeVars, clicks, escaped,
                   exitCode, printed, shot>>

\* line 7: page = browser.new_page(), before the try: a failure leaves the
\* function, and the with-block, as an exception
E_NewPage ==
    /\ script = "error_state" /\ pc = "new_page"
    /\ \E o \in {"ok", "fault"} :
         IF o = "ok"
         THEN /\ pc' = "goto"
              /\ page' = "alive"
              /\ UNCHANGED <<exc, escaped, exitCode>>
         ELSE /\ pc' = "done"
              /\ exc' = "Error"
              /\ escaped' = TRUE
              /\ exitCode' = 1
              /\ UNCHANGED page
    /\ UNCHANGED <<script, browser, probeVars, clicks, printed, shot>>

\* line 9: page.goto(...), inside the outer try
E_Goto ==
    /\ script = "error_state" /\ pc = "goto"
    /\ \E o \in Outcomes :
         /\ page' = IF o = "crash" THEN "crashed" ELSE "alive"
         /\ IF o = "ok"
            THEN pc' = "wait_form" /\ UNCHANGED exc
            ELSE pc' = "except" /\ exc' = ExcOf(o)
    /\ UNCHANGED <<script, browser, probeVars, clicks, escaped, exitCode,
                   printed, shot>>

\* mutant of E_WaitForm: the fallback written as a finally-branch, run even
\* when the wait succeeded
E_WaitForm_Finally ==
    /\ script = "error_state" /\ pc = "wait_form"
    /\ \E o \in Outcomes :
         /\ page' = IF o = "crash" THEN "crashed" ELSE "alive"
         /\ primary' = o
         /\ \E d \in Elapsed(o, FormTimeout) : waited' = waited + d
         /\ timedOut' = IF o = "timeout" THEN "wait_form" ELSE timedOut
         /\ pc' = "is_visible"
         /\ fallback' = TRUE
         /\ result' = IF o = "ok" THEN "Ready" ELSE result
    /\ UNCHANGED <<script, exc, browser, target, recovery, recheck, rechecks,
                   clicks, recoveryClicks, escaped, exitCode, printed, shot>>

\* lines 11-13: page.wait_for_selector("#create-project-form", timeout=5000)
\* under a bare except: every exception enters the fallback
E_WaitForm ==
    /\ script = "error_state" /\ pc = "wait_form"
    /\ \E o \in Outcomes :
         /\ page' = IF o = "crash" THEN "crashed" ELSE "alive"
         /\ primary' = o
         /\ \E d \in Elapsed(o, FormTimeout) : waited' = waited + d
         /\ timedOut' = IF o = "timeout" THEN "wait_form" ELSE timedOut
         /\ IF o = "ok"
            THEN /\ pc' = "create_click"
                 /\ result' = "Ready"
                 /\ UNCHANGED fallback
            ELSE /\ pc' = "is_visible"
                 /\ fallback' = TRUE
                 /\ UNCHANGED result
    /\ UNCHANGED <<script, exc, browser, target, recovery, recheck, rechecks,
                   clicks, recoveryClicks, escaped, exitCode, printed, shot>>

\* lines 14-15, 17: start_btn.is_visible() chooses the button to click
E_IsVisible ==
    /\ script = "error_state" /\ pc = "is_visible"
    /\ \E o \in (IF page = "alive" THEN {"visible", "hidden"} ELSE {}) \cup
                (QuickOutcomes \ {"ok"}) :
         /\ page' = IF o = "crash" THEN "crashed" ELSE "alive"
         /\ IF o = "visible"
            THEN pc' = "click_start" /\ UNCHANGED <<exc, result>>
            ELSE IF o = "hidden"
            THEN pc' = "click_title" /\ UNCHANGED <<exc, result>>
            ELSE pc' = "except" /\ exc' = "Error" /\ result' = "Failed"
    /\ UNCHANGED <<script, browser, primary, fallback, target, recovery,
                   recheck, rechecks, clicks, recoveryClicks, timedOut,
                   waited, escaped, exitCode, printed, shot>>

\* mutant of E_Click: the wait after the click is left out
E_Click_NoRecheck(b) ==
    /\ \E o \in Outcomes :
         /\ page' = IF o = "crash" THEN "crashed" ELSE "alive"
         /\ recovery' = o
         /\ target' = b
         /\ clicks' = clicks + 1
         /\ recoveryClicks' = recoveryClicks + 1
         /\ IF o = "ok"
            THEN pc' = "create_click" /\ result' = "RecoveredThenReady"
                 /\ UNCHANGED exc
            ELSE pc' = "except" /\ exc' = ExcOf(o) /\ result' = FailureOf(o)
    /\ UNCHANGED <<script, browser, primary, fallback, recheck, rechecks,
                   timedOut, waited, escaped, exitCode, printed, shot>>

\* the fallback's click on button b (line 16 or line 18)
E_Click(b) ==
    /\ \E o \in Outcomes :
         /\ page' = IF o = "crash" THEN "crashed" ELSE "alive"
         /\ recovery' = o
         /\ target' = b
         /\ clicks' = clicks + 1
         /\ recoveryClicks' = recoveryClicks + 1
         /\ IF o = "ok"
            THEN pc' = "recheck" /\ UNCHANGED <<exc, result>>
            ELSE pc' = "except" /\ exc' = ExcOf(o) /\ result' = FailureOf(o)
    /\ UNCHANGED <<script, browser, primary, fallback, recheck, rechecks,
                   timedOut, waited, escaped, exitCode, printed, shot>>

\* mutant of E_ClickStart: the else of line 17 is missing, the second button
\* is clicked after the first
E_ClickStart_FallsThrough ==
    /\ script = "error_state" /\ pc = "click_start"
    /\ \E o \in Outcomes :
         /\ page' = IF o = "crash" THEN "crashed" ELSE "alive"
         /\ recovery' = o
         /\ target' = "start"
         /\ clicks' = clicks + 1
         /\ recoveryClicks' = recoveryClicks + 1
         /\ IF o = "ok"
            THEN pc' = "click_title" /\ UNCHANGED <<exc, result>>
            ELSE pc' = "except" /\ exc' = ExcOf(o) /\ result' = FailureOf(o)
    /\ UNCHANGED <<script, browser, primary, fallback, recheck, rechecks,
                   timedOut, waited, escaped, exitCode, printed, shot>>

\* line 16: start_btn.click()
E_ClickStart ==
    /\ script = "error_state" /\ pc = "click_start"
    /\ E_Click("start")

\* line 18: page.get_by_title("Create New Project").click()
E_ClickTitle ==
    /\ script = "error_state" /\ pc = "click_title"
    /\ E_Click("title")

\* mutant of E_Recheck: a wait that timed out is tried a second time
E_Recheck_Retry ==
    /\ script = "error_state" /\ pc = "recheck"
    /\ \E o \in Outcomes :
         /\ page' = IF o = "crash" THEN "crashed" ELSE "alive"
         /\ recheck' = o
         /\ rechecks' = rechecks + 1
         /\ \E d \in Elapsed(o, DefaultTimeout) : waited' = waited + d
         /\ timedOut' = IF o = "timeout" THEN "recheck" ELSE timedOut
         /\ IF o = "ok"
            THEN pc' = "create_click" /\ result' = "RecoveredThenReady"
                 /\ UNCHANGED exc
            ELSE IF o = "timeout" /\ rechecks = 0
            THEN pc' = "recheck" /\ UNCHANGED <<exc, result>>
            ELSE pc' = "except" /\ exc' = ExcOf(o) /\ result' = FailureOf(o)
    /\ UNCHANGED <<script, browser, primary, fallback, target, recovery,
                   clicks, recoveryClicks, escaped, exitCode, printed, shot>>

\* line 19: page.wait_for_selector("#create-project-form"), default timeout
E_Recheck ==
    /\ script = "error_state" /\ pc = "recheck"
    /\ \E o \in Outcomes :
         /\ page' = IF o = "crash" THEN "crashed" ELSE "alive"
         /\ recheck' = o
         /\ rechecks' = rechecks + 1
         /\ \E d \in Elapsed(o, DefaultTimeout) : waited' = waited + d
         /\ timedOut' = IF o = "timeout" THEN "recheck" ELSE timedOut
         /\ IF o = "ok"
            THEN pc' = "create_click" /\ result' = "RecoveredThenReady"
                 /\ UNCHANGED exc
            ELSE pc' = "except" /\ exc' = ExcOf(o) /\ result' = FailureOf(o)
    /\ UNCHANGED <<script, browser, primary, fallback, target, recovery,
                   clicks, recoveryClicks, escaped, exitCode, printed, shot>>

\* lines 21-22: create_btn.click()
E_CreateClick ==
    /\ script = "error_state" /\ pc = "create_click"
    /\ \E o \in Outcomes :
         /\ page' = IF o = "crash" THEN "crashed" ELSE "alive"
         /\ clicks' = clicks + 1
         /\ IF o = "ok"
            THEN pc' = "screenshot" /\ UNCHANGED exc
            ELSE pc' = "except" /\ exc' = ExcOf(o)
    /\ UNCHANGED <<script, browser, probeVars, escaped, exitCode, printed, shot>>

\* line 24: page.screenshot(...)
E_Screenshot ==
    /\ script = "error_state" /\ pc = "screenshot"
    /\ \E o \in Outcomes :
         /\ page' = IF o = "crash" THEN "crashed" ELSE "alive"
         /\ IF o = "ok"
            THEN pc' = "finally" /\ shot' = TRUE /\ UNCHANGED exc
            ELSE pc' = "except" /\ exc' = ExcOf(o) /\ UNCHANGED shot
    /\ UNCHANGED <<script, browser, probeVars, clicks, escaped, exitCode, printed>>

\* mutant of E_Except: the handler prints and raises the exception again
E_Except_Reraise ==
    /\ script = "error_state" /\ pc = "except"
    /\ printed' = TRUE
    /\ pc' = "finally"
    /\ UNCHANGED <<script, exc, page, browser, probeVars, clicks, escaped,
                   exitCode, shot>>

\* lines 26-27: except Exception as e: print(...); the exception is handled
E_Except ==
    /\ script = "error_state" /\ pc = "except"
    /\ printed' = TRUE
    /\ exc' = "None"
    /\ pc' = "finally"
    /\ UNCHANGED <<script, page, browser, probeVars, clicks, escaped,
                   exitCode, shot>>

\* lines 28-29 and 31-32: finally: browser.close(); then the function and
\* the script end
E_Finally ==
    /\ script = "error_state" /\ pc = "finally"
    /\ browser' = "closed"
    /\ pc' = "done"
    /\ escaped' = (exc # "None")
    /\ exitCode' = IF exc = "None" THEN 0 ELSE 1
    /\ UNCHANGED <<script, exc, page, probeVars, clicks, printed, shot>>

----------------------------------------------------------------------------
(* verify_tooltip.py *)

\* line 36: browser = p.chromium.launch(headless=True)
T_Launch ==
    /\ script = "tooltip" /\ pc = "launch"
    /\ browser' = "open"
    /\ pc' = "new_page"
    /\ UNCHANGED <<script, exc, page, probeVars, clicks, escaped,
                   exitCode, printed, shot>>

\* line 37: page = browser.new_page(), before the try
T_NewPage ==
    /\ script = "tooltip" /\ pc = "new_page"
    /\ \E o \in {"ok", "fault"} :
         IF o = "ok"
         THEN /\ pc' = "goto"
              /\ page' = "alive"
              /\ UNCHANGED <<exc, escaped, exitCode>>
         ELSE /\ pc' = "done"
              /\ exc' = "Error"
              /\ escaped' = TRUE
              /\ exitCode' = 1
              /\ UNCHANGED page
    /\ UNCHANGED <<script, browser, probeVars, clicks, printed, shot>>

\* line 11: page.goto(...), inside try/finally
T_Goto ==
    /\ script = "tooltip" /\ pc = "goto"
    /\ \E o \in Outcomes :
         /\ page' = IF o = "crash" THEN "crashed" ELSE "alive"
         /\ IF o = "ok"
            THEN pc' = "expect_visible" /\ UNCHANGED exc
            ELSE pc' = "finally" /\ exc' = ExcOf(o)
    /\ UNCHANGED <<script, browser, probeVars, clicks, escaped, exitCode,
                   printed, shot>>

\* lines 19-22: expect(profile_button).to_be_visible(timeout=10000); expect
\* raises AssertionError when the timeout passes
T_ExpectVisible ==
    /\ script = "tooltip" /\ pc = "expect_visible"
    /\ \E o \in Outcomes :
         /\ page' = IF o = "crash" THEN "crashed" ELSE "alive"
         /\ primary' = o
         /\ \E d \in Elapsed(o, TooltipTimeout) : waited' = waited + d
         /\ timedOut' = IF o = "timeout" THEN "expect_visible" ELSE timedOut
         /\ IF o = "ok"
            THEN pc' = "get_attribute" /\ UNCHANGED <<exc, result>>
            ELSE /\ pc' = "finally"
                 /\ exc' = IF o = "timeout" THEN "AssertionError" ELSE "Error"
                 /\ result' = FailureOf(o)
    /\ UNCHANGED <<script, browser, fallback, target, recovery, recheck,
                   rechecks, clicks, recoveryClicks, escaped, exitCode,
                   printed, shot>>

\* lines 25-29: title_value = profile_button.get_attribute("title"); raise
\* AssertionError unless it is "Open profile drawer"
T_CheckTitle ==
    /\ script = "tooltip" /\ pc = "get_attribute"
    /\ \E o \in (IF page = "alive" THEN {"match", "mismatch"} ELSE {}) \cup
                (Outcomes \ {"ok"}) :
         /\ page' = IF o = "crash" THEN "crashed" ELSE "alive"
         /\ IF o = "match"
            THEN pc' = "screenshot" /\ result' = "Ready" /\ UNCHANGED exc
            ELSE IF o = "mismatch"
            THEN pc' = "finally" /\ exc' = "AssertionError" /\ result' = "Failed"
            ELSE pc' = "finally" /\ exc' = ExcOf(o) /\ result' = FailureOf(o)
    /\ UNCHANGED <<script, browser, primary, fallback, target, recovery,
                   recheck, rechecks, clicks, recoveryClicks, timedOut,
                   waited, escaped, exitCode, printed, shot>>

\* line 32: page.screenshot(...)
T_Screenshot ==
    /\ script = "tooltip" /\ pc = "screenshot"
    /\ \E o \in Outcomes :
         /\ page' = IF o = "crash" THEN "crashed" ELSE "alive"
         /\ IF o = "ok"
            THEN pc' = "finally" /\ shot' = TRUE /\ UNCHANGED exc
            ELSE pc' = "finally" /\ exc' = ExcOf(o) /\ UNCHANGED shot
    /\ UNCHANGED <<script, browser, probeVars, clicks, escaped, exitCode, printed>>

\* lines 38-41: finally: browser.close(); an exception in flight goes on to
\* the interpreter
T_Finally ==
    /\ script = "tooltip" /\ pc = "finally"
    /\ browser' = "closed"
    /\ pc' = "done"
    /\ escaped' = (exc # "None")
    /\ exitCode' = IF exc = "None" THEN 0 ELSE 1
    /\ UNCHANGED <<script, exc, page, probeVars, clicks, printed, shot>>

----------------------------------------------------------------------------
(* verify_template_gallery.py: no try statement; an exception leaves run()  *)
(* and the with-block of lines 36-37                                        *)

\* an operation of run() failed with outcome o
G_Raise(o) ==
    /\ pc' = "done"
    /\ exc' = ExcOf(o)
    /\ escaped' = TRUE
    /\ exitCode' = 1

\* line 5: browser = playwright.chromium.launch()
G_Launch ==
    /\ script = "gallery" /\ pc = "launch"
    /\ browser' = "open"
    /\ pc' = "new_page"
    /\ UNCHANGED <<script, exc, page, probeVars, clicks, escaped,
                   exitCode, printed, shot>>

\* line 6: page = browser.new_page()
G_NewPage ==
    /\ script = "gallery" /\ pc = "new_page"
    /\ \E o \in {"ok", "fault"} :
         IF o = "ok"
         THEN pc' = "goto" /\ page' = "alive" /\ UNCHANGED <<exc, escaped, exitCode>>
         ELSE G_Raise(o) /\ UNCHANGED page
    /\ UNCHANGED <<script, browser, probeVars, clicks, printed, shot>>

\* line 7: page.goto(...)
G_Goto ==
    /\ script = "gallery" /\ pc = "goto"
    /\ \E o \in Outcomes :
         /\ page' = IF o = "crash" THEN "crashed" ELSE "alive"
         /\ IF o = "ok"
            THEN pc' = "wait_h1" /\ UNCHANGED <<exc, escaped, exitCode>>
            ELSE G_Raise(o)
    /\ UNCHANGED <<script, browser, probeVars, clicks, printed, shot>>

\* mutant of G_Wait: a timeout of the wait is swallowed and run() goes on
G_Wait_Swallow(here, t, next) ==
    /\ script = "gallery" /\ pc = here
    /\ \E o \in Outcomes :
         /\ page' = IF o = "crash" THEN "crashed" ELSE "alive"
         /\ primary' = IF here = "wait_h1" THEN o ELSE primary
         /\ \E d \in Elapsed(o, t) : waited' = waited + d
         /\ timedOut' = IF o = "timeout" THEN here ELSE timedOut
         /\ IF o \in {"ok", "timeout"}
            THEN /\ pc' = next
                 /\ result' = IF here = "wait_detail" THEN "Ready" ELSE result
                 /\ UNCHANGED <<exc, escaped, exitCode>>
            ELSE G_Raise(o) /\ result' = FailureOf(o)
    /\ UNCHANGED <<script, browser, fallback, target, recovery, recheck,
                   rechecks, clicks, recoveryClicks, printed, shot>>

\* a wait of run() at statement here, with timeout t, followed by statement next
G_Wait(here, t, next) ==
    /\ script = "gallery" /\ pc = here
    /\ \E o \in Outcomes :
         /\ page' = IF o = "crash" THEN "crashed" ELSE "alive"
         /\ primary' = IF here = "wait_h1" THEN o ELSE primary
         /\ \E d \in Elapsed(o, t) : waited' = waited + d
         /\ timedOut' = IF o = "timeout" THEN here ELSE timedOut
         /\ IF o = "ok"
            THEN /\ pc' = next
                 /\ result' = IF here = "wait_detail" THEN "Ready" ELSE result
                 /\ UNCHANGED <<exc, escaped, exitCode>>
            ELSE G_Raise(o) /\ result' = FailureOf(o)
    /\ UNCHANGED <<script, browser, fallback, target, recovery, recheck,
                   rechecks, clicks, recoveryClicks, printed, shot>>

\* line 10: page.wait_for_selector("h1", timeout=60000)
G_WaitH1 == G_Wait("wait_h1", H1Timeout, "scroll")

\* line 13: page.evaluate("window.scrollTo(...)")
G_Scroll ==
    /\ script = "gallery" /\ pc = "scroll"
    /\ \E o \in QuickOutcomes :
         /\ page' = IF o = "crash" THEN "crashed" ELSE "alive"
         /\ IF o = "ok"
            THEN pc' = "wait_hide" /\ UNCHANGED <<exc, escaped, exitCode, result>>
            ELSE G_Raise(o) /\ result' = FailureOf(o)
    /\ UNCHANGED <<script, browser, primary, fallback, target, recovery,
                   recheck, rechecks, clicks, recoveryClicks, timedOut,
                   waited, printed, shot>>

\* lines 17-19: hide_library_button.wait_for(state="visible", timeout=30000)
G_WaitHideLibrary == G_Wait("wait_hide", HideLibraryTimeout, "wait_template")

\* lines 22-23: magic_system_template.wait_for(state="visible", timeout=15000)
G_WaitTemplate == G_Wait("wait_template", TemplateTimeout, "click_template")

\* line 24: magic_system_template.click()
G_ClickTemplate ==
    /\ script = "gallery" /\ pc = "click_template"
    /\ \E o \in Outcomes :
         /\ page' = IF o = "crash" THEN "crashed" ELSE "alive"
         /\ clicks' = clicks + 1
         /\ IF o = "ok"
            THEN pc' = "wait_detail" /\ UNCHANGED <<exc, escaped, exitCode, result>>
            ELSE G_Raise(o) /\ result' = FailureOf(o)
    /\ UNCHANGED <<script, browser, primary, fallback, target, recovery,
                   recheck, rechecks, recoveryClicks, timedOut, waited,
                   printed, shot>>

\* lines 28-29: artifact_detail_title.wait_for(state="visible", timeout=15000)
G_WaitDetail == G_Wait("wait_detail", DetailTimeout, "screenshot")

\* line 32: page.screenshot(...)
G_Screenshot ==
    /\ script = "gallery" /\ pc = "screenshot"
    /\ \E o \in Outcomes :
         /\ page' = IF o = "crash" THEN "crashed" ELSE "alive"
         /\ IF o = "ok"
            THEN pc' = "close" /\ shot' = TRUE
                 /\ UNCHANGED <<exc, escaped, exitCode>>
            ELSE G_Raise(o) /\ UNCHANGED shot
    /\ UNCHANGED <<script, browser, probeVars, clicks, printed>>

\* line 34: browser.close(), then run() and the script end
G_Close ==
    /\ script = "gallery" /\ pc = "close"
    /\ browser' = "closed"
    /\ pc' = "done"
    /\ exitCode' = 0
    /\ UNCHANGED <<script, exc, page, probeVars, clicks, escaped,
                   printed, shot>>

----------------------------------------------------------------------------

Next ==
    \/ E_Launch \/ E_NewPage \/ E_Goto \/ E_WaitForm \/ E_IsVisible
    \/ E_ClickStart \/ E_ClickTitle \/ E_Recheck \/ E_CreateClick
    \/ E_Screenshot \/ E_Except \/ E_Finally
    \/ T_Launch \/ T_NewPage \/ T_Goto \/ T_ExpectVisible \/ T_CheckTitle
    \/ T_Screenshot \/ T_Finally
    \/ G_Launch \/ G_NewPage \/ G_Goto \/ G_WaitH1 \/ G_Scroll
    \/ G_WaitHideLibrary \/ G_WaitTemplate \/ G_ClickTemplate \/ G_WaitDetail
    \/ G_Screenshot \/ G_Close

Spec == Init /\ [][Next]_vars

\* every operation of a script returns or raises: the interpreter always
\* takes the next step
FairSpec == Spec /\ WF_vars(Next)

TypeOK ==
    /\ script \in Scripts
    /\ exc \in {"None", "TimeoutError", "Error", "AssertionError"}
    /\ page \in {"none", "alive", "crashed"}
    /\ browser \in {"none", "open", "closed"}
    /\ primary \in {"none", "ok", "timeout", "fault", "crash"}
    /\ result \in {"None", "Ready", "RecoveredThenReady", "TimedOut", "Failed"}
    /\ exitCode \in {-1, 0, 1}

----------------------------------------------------------------------------
(* Properties *)

Good == {"Ready", "RecoveredThenReady"}
Bad == {"TimedOut", "Failed"}

\* the script's first wait has been executed: the wait/fallback sequence ran
ProbeStarted == primary # "none"

\* seconds the waits of a script may take: the sum of its waits' timeouts,
\* with the one wait after the fallback click for verify_error_state
Budget ==
    IF script = "error_state" THEN FormTimeout + DefaultTimeout
    ELSE IF script = "tooltip" THEN TooltipTimeout
    ELSE H1Timeout + HideLibraryTimeout + TemplateTimeout + DetailTimeout

C2_ExitCodeReflectsOutcome ==
    (pc = "done" /\ ProbeStarted) =>
        /\ result \in Bad => exitCode # 0
        /\ (result \in Good /\ shot) => exitCode = 0

\* C3: a fault while polling the first condition gives Failed and never
\* takes the timed-out branch: no fallback, no recovery click.
C3_FaultIsNotATimeout ==
    primary \in Faults =>
        /\ ~fallback
        /\ recoveryClicks = 0
        /\ pc = "done" => result = "Failed"

\* C4: a run that created its page and has ended has executed browser.close().
C4_ClosedOnEveryExit ==
    (pc = "done" /\ page # "none") => browser = "closed"

\* C5: when the first condition did not hold, the fallback's click is
\* invoked exactly once before the wait that follows it, whichever button
\* it clicks, and never more than once in a run.
C5_RecoveryClickedExactlyOnce ==
    /\ recoveryClicks <= 1
    /\ (pc = "recheck" \/ rechecks > 0) => recoveryClicks = 1
    /\ (target # "none") <=> (recoveryClicks = 1)
    /\ (script = "error_state" /\ pc \in {"create_click", "screenshot"}
          /\ primary # "ok") => recoveryClicks = 1

C5_Witness ==
    /\ primary = "timeout" /\ target = "title"
    /\ rechecks = 1 /\ recoveryClicks = 1

\* C6: when the first condition holds when first polled, the outcome is
\* Ready and no recovery click is issued.
C6_ReadyWithoutRecovery ==
    /\ primary = "ok" => recoveryClicks = 0
    /\ (script = "error_state" /\ primary = "ok") =>
          /\ result = "Ready"
          /\ ~fallback
          /\ rechecks = 0
          /\ target = "none"

C6_Witness ==
    /\ script = "error_state" /\ pc = "done" /\ primary = "ok"
    /\ result = "Ready" /\ recoveryClicks = 0 /\ clicks = 1

\* C7: in the scripts whose waits have no recovery action, the step in which
\* a wait times out, and every step after it, makes no click.
C7_NoClickAfterTimeout ==
    [][(script \in {"tooltip", "gallery"} /\ timedOut' # "none") =>
          (clicks' = clicks /\ recoveryClicks' = recoveryClicks)]_vars

C7_Witness ==
    /\ script = "gallery" /\ pc = "done"
    /\ timedOut = "wait_template" /\ clicks = 0

C9_FallbackOnlyAfterTimeout ==
    /\ fallback => primary = "timeout"
    /\ primary = "ok" => (~fallback /\ rechecks = 0 /\ recoveryClicks = 0)

\* C10: after the fallback's click has been executed the condition is waited
\* for exactly once more; if it holds the outcome is RecoveredThenReady, and
\* if it times out the outcome is TimedOut, reported without an exception
\* leaving the run.
C10_RecheckedOnceAfterRecovery ==
    /\ rechecks <= 1
    /\ (recovery = "ok" /\ pc # "recheck") => rechecks = 1
    /\ rechecks = 1 => recovery = "ok"
    /\ recheck = "ok" => result = "RecoveredThenReady"
    /\ recheck = "timeout" =>
          /\ result = "TimedOut"
          /\ ~escaped
          /\ pc = "done" => (printed /\ exitCode = 0)

C10_Witness ==
    /\ pc = "done" /\ recovery = "ok" /\ recheck = "timeout"
    /\ result = "TimedOut" /\ rechecks = 1
====
